---- MODULE Spec2Model ----
(***************************************************************************)
(* The nameko-devex HTTP gateway (gateway/service.py, gateway/schemas.py). *)
(*                                                                         *)
(* The gateway keeps no state of its own.  Every handler decodes its       *)
(* request, issues remote calls to the products and orders services and    *)
(* builds a response.  A handler yields only inside a remote call, so a    *)
(* handler with one remote call is one atomic step, and the two handlers   *)
(* with several calls (create_order, get_order) are one step per call.     *)
(*                                                                         *)
(* Python strings are sequences of one-character strings, so that parsing  *)
(* and formatting (int(), Decimal(), str(), str.format) are computed.      *)
(***************************************************************************)
EXTENDS Integers, Sequences, FiniteSets, TLC

\* ------------------------------------------------------------------------
\* Bounds of the model.

\* Longest order_details list of a create_order request.
MaxLines == 2

\* Most orders created through the gateway in one run.
MaxOrders == 1

\* Most orders the orders service holds when a run of listings begins.
MaxStored == 2

\* Longest text of a query parameter (p, per_page).
MaxArgLen == 1

\* ------------------------------------------------------------------------
\* Characters and numbers.

Digits == <<"0", "1", "2", "3", "4", "5", "6", "7", "8", "9">>

IsDigit(c) == \E i \in 1..10 : Digits[i] = c

DigitVal(c) == (CHOOSE i \in 1..10 : Digits[i] = c) - 1

AllDigits(s) == \A i \in 1..Len(s) : IsDigit(s[i])

RECURSIVE DigitsValue(_)
DigitsValue(s) ==
    IF s = <<>> THEN 0
    ELSE 10 * DigitsValue(SubSeq(s, 1, Len(s) - 1)) + DigitVal(s[Len(s)])

\* str(n) for n >= 0.
RECURSIVE NatStr(_)
NatStr(n) ==
    IF n < 10 THEN <<Digits[n + 1]>>
    ELSE NatStr(n \div 10) \o <<Digits[(n % 10) + 1]>>

\* str(n) of a Python int.
IntStr(n) == IF n < 0 THEN <<"-">> \o NatStr(-n) ELSE NatStr(n)

HasSign(s) == Len(s) > 0 /\ s[1] \in {"+", "-"}

Unsigned(s) == IF HasSign(s) THEN Tail(s) ELSE s

\* int(s) of a Python str: an optional sign, then one digit or more.
\* Anything else raises ValueError (ok = FALSE).
IntParse(s) ==
    LET body == Unsigned(s)
        neg  == HasSign(s) /\ s[1] = "-"
    IN  IF Len(body) > 0 /\ AllDigits(body)
        THEN [ok |-> TRUE,
              n  |-> IF neg THEN -DigitsValue(body) ELSE DigitsValue(body)]
        ELSE [ok |-> FALSE, n |-> 0]

Zeros(k) == [i \in 1..k |-> "0"]

\* decimal.Decimal(s): an optional sign, digits with at most one point and
\* at least one digit.  The value keeps its exponent: Decimal("0.10") has
\* coefficient 10 and exponent -2.
DecimalParse(s) ==
    LET body   == Unsigned(s)
        neg    == HasSign(s) /\ s[1] = "-"
        points == {i \in 1..Len(body) : body[i] = "."}
        dot    == IF points = {} THEN Len(body) + 1
                  ELSE CHOOSE i \in points : TRUE
        int    == SubSeq(body, 1, dot - 1)
        frac   == SubSeq(body, dot + 1, Len(body))
    IN  IF /\ Cardinality(points) <= 1
           /\ Len(int) + Len(frac) > 0
           /\ AllDigits(int) /\ AllDigits(frac)
        THEN [ok |-> TRUE, neg |-> neg,
              coef |-> DigitsValue(int \o frac), exp |-> -Len(frac)]
        ELSE [ok |-> FALSE, neg |-> FALSE, coef |-> 0, exp |-> 0]

\* str(d) of a finite Decimal with exponent <= 0 (Decimal.__str__).
DecimalStr(d) ==
    LET sign       == IF d.neg THEN <<"-">> ELSE <<>>
        int_str    == NatStr(d.coef)
        leftdigits == d.exp + Len(int_str)
        scientific == ~(d.exp <= 0 /\ leftdigits > -6)
        dotplace   == IF scientific THEN 1 ELSE leftdigits
        intpart    == IF dotplace <= 0 THEN <<"0">>
                      ELSE SubSeq(int_str, 1, dotplace)
        fracpart   == IF dotplace <= 0
                      THEN <<".">> \o Zeros(-dotplace) \o int_str
                      ELSE IF dotplace >= Len(int_str) THEN <<>>
                      ELSE <<".">> \o SubSeq(int_str, dotplace + 1, Len(int_str))
        expo       == IF leftdigits = dotplace THEN <<>>
                      ELSE <<"E">>
                           \o (IF leftdigits - dotplace < 0 THEN <<>> ELSE <<"+">>)
                           \o IntStr(leftdigits - dotplace)
    IN  sign \o intpart \o fracpart \o expo

\* ------------------------------------------------------------------------
\* JSON values of a request body and the Python values a schema loads.

JAbsent == [t |-> "absent"]
JNull == [t |-> "null"]
JStr(s) == [t |-> "str", s |-> s]
JInt(n) == [t |-> "int", n |-> n]
JList(items) == [t |-> "list", items |-> items]

PyNone == [t |-> "none"]
PyStr(s) == [t |-> "str", s |-> s]
PyInt(n) == [t |-> "int", n |-> n]
PyDec(d) == [t |-> "dec", neg |-> d.neg, coef |-> d.coef, exp |-> d.exp]

Invalid == [ok |-> FALSE, val |-> PyNone]
Valid(v) == [ok |-> TRUE, val |-> v]

\* A fields.Str that takes the text of a number as well.
StrDeserializeLenient(v) ==
    IF v.t = "str" THEN Valid(PyStr(v.s))
    ELSE IF v.t = "int" THEN Valid(PyStr(IntStr(v.n)))
    ELSE Invalid

\* fields.Str: only a string is accepted.
StrDeserialize(v) == IF v.t = "str" THEN Valid(PyStr(v.s)) ELSE Invalid

\* fields.Int: int(value).
IntDeserialize(v) ==
    CASE v.t = "int" -> Valid(PyInt(v.n))
      [] v.t = "str" -> IF IntParse(v.s).ok THEN Valid(PyInt(IntParse(v.s).n))
                        ELSE Invalid
      [] OTHER -> Invalid

\* fields.Decimal: Decimal(str(value)).
DecimalDeserialize(v) ==
    LET text == IF v.t = "int" THEN IntStr(v.n) ELSE v.s
    IN  IF v.t \in {"int", "str"} /\ DecimalParse(text).ok
        THEN Valid(PyDec(DecimalParse(text)))
        ELSE Invalid

\* One declared field of a schema on load.  required: the key must be
\* present.  missing_none: the field is declared missing=None, which also
\* lets an explicit null through.
LoadField(type, required, missing_none, v) ==
    CASE v.t = "absent" -> IF required THEN Invalid ELSE Valid(PyNone)
      [] v.t = "null"   -> IF missing_none THEN Valid(PyNone) ELSE Invalid
      [] type = "str"   -> StrDeserialize(v)
      [] type = "int"   -> IntDeserialize(v)
      [] OTHER          -> DecimalDeserialize(v)

\* ------------------------------------------------------------------------
\* Request bodies.  json.loads raises ValueError on text that is not JSON;
\* a schema's load rejects JSON that is not an object.

Malformed == [kind |-> "malformed"]
NonObject == [kind |-> "nonobject"]
Obj(f) == [kind |-> "object", f |-> f]

LoadError(exc) == [exc |-> exc, data |-> PyNone]
Loaded(data) == [exc |-> "", data |-> data]

\* CreateProductSchema(strict=True).loads(body)
CreateProductSchemaLoads(body) ==
    IF body.kind = "malformed" THEN LoadError("ValueError")
    ELSE IF body.kind # "object" THEN LoadError("ValidationError")
    ELSE LET id == LoadField("str", TRUE, FALSE, body.f.id)
             title == LoadField("str", TRUE, FALSE, body.f.title)
             maximum_speed == LoadField("int", TRUE, FALSE, body.f.maximum_speed)
             in_stock == LoadField("int", TRUE, FALSE, body.f.in_stock)
             passenger_capacity ==
                 LoadField("int", TRUE, FALSE, body.f.passenger_capacity)
         IN  IF id.ok /\ title.ok /\ maximum_speed.ok /\ in_stock.ok
                /\ passenger_capacity.ok
             THEN Loaded([id |-> id.val, title |-> title.val,
                          maximum_speed |-> maximum_speed.val,
                          in_stock |-> in_stock.val,
                          passenger_capacity |-> passenger_capacity.val])
             ELSE LoadError("ValidationError")

\* missing='' in place of missing=None.
UpdateMissingEmpty == PyStr(<<>>)

\* The value a field of UpdateProductSchema takes when the body lacks it.
UpdateMissingValue == PyNone

UpdateField(type, v) ==
    IF v.t = "absent" THEN Valid(UpdateMissingValue)
    ELSE LoadField(type, FALSE, TRUE, v)

\* UpdateProductSchema(strict=True).loads(body): no field is required, and an
\* absent field loads as None.  The schema has no id field: an id in the
\* body is dropped.
UpdateProductSchemaLoads(body) ==
    IF body.kind = "malformed" THEN LoadError("ValueError")
    ELSE IF body.kind # "object" THEN LoadError("ValidationError")
    ELSE LET title == UpdateField("str", body.f.title)
             maximum_speed == UpdateField("int", body.f.maximum_speed)
             in_stock == UpdateField("int", body.f.in_stock)
             passenger_capacity == UpdateField("int", body.f.passenger_capacity)
         IN  IF title.ok /\ maximum_speed.ok /\ in_stock.ok
                /\ passenger_capacity.ok
             THEN Loaded([title |-> title.val,
                          maximum_speed |-> maximum_speed.val,
                          in_stock |-> in_stock.val,
                          passenger_capacity |-> passenger_capacity.val])
             ELSE LoadError("ValidationError")

\* CreateOrderDetailSchema on load: one line of order_details.
CreateOrderDetailSchemaLoad(line) ==
    LET product_id == LoadField("str", TRUE, FALSE, line.product_id)
        price == LoadField("dec", TRUE, FALSE, line.price)
        quantity == LoadField("int", TRUE, FALSE, line.quantity)
    IN  IF product_id.ok /\ price.ok /\ quantity.ok
        THEN Valid([product_id |-> product_id.val, price |-> price.val,
                    quantity |-> quantity.val])
        ELSE Invalid

\* CreateOrderSchema(strict=True).loads(body): order_details is required and
\* is a list of lines, each loaded in place.
CreateOrderSchemaLoads(body) ==
    IF body.kind = "malformed" THEN LoadError("ValueError")
    ELSE IF body.kind # "object" THEN LoadError("ValidationError")
    ELSE IF body.f.order_details.t # "list" THEN LoadError("ValidationError")
    ELSE LET items == body.f.order_details.items
             loaded == [i \in 1..Len(items) |->
                            CreateOrderDetailSchemaLoad(items[i])]
         IN  IF \A i \in 1..Len(items) : loaded[i].ok
             THEN Loaded([order_details |->
                              [i \in 1..Len(items) |-> loaded[i].val]])
             ELSE LoadError("ValidationError")

\* The price dumped as its whole part only.
DumpPriceWhole(price) ==
    LET text == DecimalStr(price)
        points == {i \in 1..Len(text) : text[i] = "."}
    IN  IF points = {} THEN text
        ELSE SubSeq(text, 1, (CHOOSE i \in points : TRUE) - 1)

\* fields.Decimal(as_string=True) on dump.
DumpPrice(price) == DecimalStr(price)

\* CreateOrderSchema().dump(order_data).data: the loaded lines as plain JSON
\* values, the price as the string of its Decimal.
CreateOrderSchemaDump(order_data) ==
    [order_details |->
        [i \in 1..Len(order_data.order_details) |->
            LET item == order_data.order_details[i]
            IN  [product_id |-> item.product_id.s,
                 price |-> DumpPrice(item.price),
                 quantity |-> item.quantity.n]]]

\* ------------------------------------------------------------------------
\* The two remote services, as far as the gateway's calls see them.  A store
\* of products is a function from the ids it holds to their records; the
\* orders store is the sequence of the orders created.

\* products.exists(product_id)
ProductsExists(store, product_id) == product_id \in DOMAIN store

\* products.get(product_id): the record, or the remote ProductNotFound.
ProductsGet(store, product_id) ==
    IF product_id \in DOMAIN store
    THEN [exc |-> "", product |-> store[product_id]]
    ELSE [exc |-> "ProductNotFound", product |-> PyNone]

\* products.create(data): ProductExists when the id is taken.
ProductsCreate(store, data) ==
    IF data.id.s \in DOMAIN store
    THEN [exc |-> "ProductExists", store |-> store]
    ELSE [exc |-> "",
          store |-> [q \in DOMAIN store \cup {data.id.s} |->
                        IF q = data.id.s THEN data ELSE store[q]]]

\* products.update(product_id, data): a field that is None in data keeps
\* its value; ProductNotFound when the id is absent.
ProductsUpdate(store, product_id, data) ==
    IF product_id \notin DOMAIN store
    THEN [exc |-> "ProductNotFound", store |-> store]
    ELSE LET old == store[product_id]
             keep(new, prev) == IF new = PyNone THEN prev ELSE new
             updated ==
                 [id |-> old.id,
                  title |-> keep(data.title, old.title),
                  maximum_speed |-> keep(data.maximum_speed, old.maximum_speed),
                  in_stock |-> keep(data.in_stock, old.in_stock),
                  passenger_capacity |->
                      keep(data.passenger_capacity, old.passenger_capacity)]
         IN  [exc |-> "",
              store |-> [store EXCEPT ![product_id] = updated]]

\* products.delete(product_id)
ProductsDelete(store, product_id) ==
    IF product_id \notin DOMAIN store
    THEN [exc |-> "ProductNotFound", store |-> store]
    ELSE [exc |-> "",
          store |-> [q \in DOMAIN store \ {product_id} |-> store[q]]]

RECURSIVE LineCount(_)
LineCount(store) ==
    IF store = <<>> THEN 0
    ELSE Len(store[Len(store)].order_details)
         + LineCount(SubSeq(store, 1, Len(store) - 1))

\* orders.create_order(order_details): the order as stored, with the ids the
\* service assigns to it and to its lines.
OrdersCreateOrder(store, order_details) ==
    [id |-> Len(store) + 1,
     order_details |->
        [i \in 1..Len(order_details) |->
            [id |-> LineCount(store) + i,
             product_id |-> order_details[i].product_id,
             price |-> order_details[i].price,
             quantity |-> order_details[i].quantity]]]

\* orders.get_order(order_id): the order, or the remote OrderNotFound.
OrdersGetOrder(store, order_id) ==
    IF order_id \in 1..Len(store)
    THEN [exc |-> "", order |-> store[order_id]]
    ELSE [exc |-> "OrderNotFound", order |-> [id |-> 0, order_details |-> <<>>]]

Min(a, b) == IF a < b THEN a ELSE b

\* orders.list_orders(page, per_page): the orders of that page, in the
\* store's order; no order for a page or a size below 1.
OrdersListOrders(store, page, per_page) ==
    IF page < 1 \/ per_page < 1 THEN <<>>
    ELSE SubSeq(store, (page - 1) * per_page + 1,
                Min(page * per_page, Len(store)))

\* The status the http entrypoint gives an exception: that of its class when
\* the handler lists it in expected_exceptions, 500 otherwise.
HttpStatus(exc, expected) ==
    IF exc \notin expected THEN 500
    ELSE CASE exc \in {"BadRequest", "ValidationError"} -> 400
           [] exc \in {"ProductNotFound", "OrderNotFound"} -> 404
           [] exc = "ProductExists" -> 409
           [] OTHER -> 500

\* ------------------------------------------------------------------------
\* Dumps of the response schemas.

\* CreateProductSchema().dump(product)
CreateProductSchemaDump(product) ==
    [id |-> product.id.s, title |-> product.title.s,
     maximum_speed |-> product.maximum_speed.n,
     in_stock |-> product.in_stock.n,
     passenger_capacity |-> product.passenger_capacity.n]

\* GetOrderSchema.OrderDetail on dump: product and image only where the line
\* has them.
OrderDetailDump(item) ==
    LET base == [id |-> item.id, quantity |-> item.quantity,
                 product_id |-> item.product_id,
                 price |-> DecimalStr(DecimalParse(item.price))]
    IN  IF "product" \in DOMAIN item
        THEN [id |-> base.id, quantity |-> base.quantity,
              product_id |-> base.product_id, price |-> base.price,
              image |-> item.image,
              product |-> CreateProductSchemaDump(item.product)]
        ELSE base

OrderDump(order) ==
    [id |-> order.id,
     order_details |-> [i \in 1..Len(order.order_details) |->
                           OrderDetailDump(order.order_details[i])]]

\* A wrap_with_count that wraps whatever it is given.
wrap_with_count_always(data, many) ==
    IF many THEN [count |-> Len(data), data |-> data]
    ELSE [count |-> 1, data |-> data]

\* GetOrderSchema.wrap_with_count (post_dump, pass_many)
wrap_with_count(data, many) ==
    IF many THEN [count |-> Len(data), data |-> data] ELSE data

\* GetOrderSchema(many=many).dumps(obj).data
GetOrderSchemaDumps(obj, many) ==
    IF many
    THEN wrap_with_count([i \in 1..Len(obj) |-> OrderDump(obj[i])], TRUE)
    ELSE wrap_with_count(OrderDump(obj), FALSE)

\* ------------------------------------------------------------------------
\* The gateway.

P1 == <<"p", "1">>
P2 == <<"p", "2">>
ProductIds == {P1, P2}

\* config['PRODUCT_IMAGE_ROOT']
PRODUCT_IMAGE_ROOT == <<"h", "t", "t", "p", ":", "/", "/", "i", "m", "g">>

\* '{}{}.jpg': the separator left out.
ImageUrlNoSeparator(image_root, product_id) ==
    image_root \o product_id \o <<".", "j", "p", "g">>

\* '{}/{}.jpg'.format(image_root, product_id)
ImageUrl(image_root, product_id) ==
    image_root \o <<"/">> \o product_id \o <<".", "j", "p", "g">>

\* "Product Id {}".format(product_id)
ProductIdMessage(product_id) ==
    <<"P", "r", "o", "d", "u", "c", "t", " ", "I", "d", " ">> \o product_id

NoBody == [t |-> "none"]
NoResponse == [status |-> 0, exc |-> "", msg |-> <<>>, body |-> NoBody]
Response(status, body) ==
    [status |-> status, exc |-> "", msg |-> <<>>, body |-> body]
Raised(exc, msg, expected) ==
    [status |-> HttpStatus(exc, expected), exc |-> exc, msg |-> msg,
     body |-> NoBody]

\* What a handler raises when loads fails: ValueError becomes BadRequest,
\* ValidationError goes through.
LoadFailure(loaded, expected) ==
    IF loaded.exc = "ValueError" THEN Raised("BadRequest", <<>>, expected)
    ELSE Raised(loaded.exc, <<>>, expected)

NoData == [order_details |-> <<>>]
NoRequest == [op |-> "none"]
NoSimple == [op |-> "none", calls |-> <<>>, response |-> NoResponse]

VARIABLES
    products,   \* the products service's store
    orders,     \* the orders service's store
    pc,         \* where the create_order or get_order request in flight is
    request,    \* that request
    data,       \* its local: order_data (create_order) or order (get_order)
    idx,        \* the line its loop is at
    calls,      \* the remote calls it has issued, with their results
    response,   \* its response, once done
    simple      \* the last request of a one-call handler: calls and response

vars == <<products, orders, pc, request, data, idx, calls, response, simple>>
orch == <<pc, request, data, idx, calls, response>>

CreateOrderExpected == {"ValidationError", "ProductNotFound", "BadRequest"}

\* In the actions, \E x \in {e} names the value of e (a local of the handler).

\* create_order, to the first remote call: the body is loaded.
CreateOrderStart(body) ==
    /\ pc \in {"idle", "done"}
    /\ Len(orders) < MaxOrders
    /\ \E loaded \in {CreateOrderSchemaLoads(body)} :
        /\ request' = [op |-> "create_order", body |-> body]
        /\ calls' = <<>>
        /\ idx' = 1
        /\ IF loaded.exc # ""
           THEN /\ response' = LoadFailure(loaded, CreateOrderExpected)
                /\ data' = NoData
                /\ pc' = "done"
           ELSE /\ response' = NoResponse
                /\ data' = loaded.data
                /\ pc' = IF loaded.data.order_details = <<>> THEN "commit"
                         ELSE "exists"
    /\ UNCHANGED <<products, orders, simple>>

\* A loop of _create_order that goes on after a product is found missing.
CreateOrderExistsNoAbort ==
    /\ pc = "exists"
    /\ \E product_id \in {data.order_details[idx].product_id.s} :
       \E found \in {ProductsExists(products, product_id)} :
        /\ calls' = Append(calls, [svc |-> "products", method |-> "exists",
                                   product_id |-> product_id, found |-> found])
        /\ response' = response
        /\ pc' = IF idx = Len(data.order_details) THEN "commit" ELSE "exists"
        /\ idx' = idx + 1
    /\ UNCHANGED <<products, orders, request, data, simple>>

\* A loop of _create_order that asks once for each distinct product_id.
CreateOrderExistsDedup ==
    /\ pc = "exists"
    /\ \E product_id \in {data.order_details[idx].product_id.s} :
       \E found \in {ProductsExists(products, product_id)} :
       \E seen \in {\E k \in 1..Len(calls) : calls[k].product_id = product_id} :
        /\ calls' = IF seen THEN calls
                    ELSE Append(calls, [svc |-> "products", method |-> "exists",
                                        product_id |-> product_id,
                                        found |-> found])
        /\ IF ~seen /\ ~found
           THEN /\ response' = Raised("ProductNotFound",
                                      ProductIdMessage(product_id),
                                      CreateOrderExpected)
                /\ pc' = "done"
                /\ idx' = idx
           ELSE /\ response' = response
                /\ pc' = IF idx = Len(data.order_details) THEN "commit"
                         ELSE "exists"
                /\ idx' = idx + 1
    /\ UNCHANGED <<products, orders, request, data, simple>>

\* _create_order, one turn of the loop: products_rpc.exists(product_id).
CreateOrderExists ==
    /\ pc = "exists"
    /\ \E product_id \in {data.order_details[idx].product_id.s} :
       \E found \in {ProductsExists(products, product_id)} :
        /\ calls' = Append(calls, [svc |-> "products", method |-> "exists",
                                   product_id |-> product_id, found |-> found])
        /\ IF ~found
           THEN /\ response' = Raised("ProductNotFound",
                                      ProductIdMessage(product_id),
                                      CreateOrderExpected)
                /\ pc' = "done"
                /\ idx' = idx
           ELSE /\ response' = response
                /\ pc' = IF idx = Len(data.order_details) THEN "commit"
                         ELSE "exists"
                /\ idx' = idx + 1
    /\ UNCHANGED <<products, orders, request, data, simple>>

\* _create_order after the loop: the dump, orders_rpc.create_order and the
\* response of create_order.
CreateOrderCommit ==
    /\ pc = "commit"
    /\ \E serialized_data \in {CreateOrderSchemaDump(data)} :
       \E result \in {OrdersCreateOrder(orders, serialized_data.order_details)} :
        /\ orders' = Append(orders, result)
        /\ calls' = Append(calls, [svc |-> "orders", method |-> "create_order",
                                   order_details |-> serialized_data.order_details,
                                   result |-> result])
        /\ response' = Response(201, [id |-> result.id])
        /\ pc' = "done"
    /\ UNCHANGED <<products, request, data, idx, simple>>

GetOrderExpected == {"OrderNotFound"}

\* get_order to the end of its first remote call, orders_rpc.get_order.
GetOrderFetch(order_id) ==
    /\ pc \in {"idle", "done"}
    /\ \E got \in {OrdersGetOrder(orders, order_id)} :
        /\ request' = [op |-> "get_order", order_id |-> order_id]
        /\ calls' = <<[svc |-> "orders", method |-> "get_order",
                       order_id |-> order_id, exc |-> got.exc,
                       order |-> got.order]>>
        /\ idx' = 1
        /\ IF got.exc # ""
           THEN /\ response' = Raised(got.exc, <<>>, GetOrderExpected)
                /\ data' = NoData
                /\ pc' = "done"
           ELSE /\ data' = got.order
                /\ IF got.order.order_details = <<>>
                   THEN /\ response' =
                              Response(200, GetOrderSchemaDumps(got.order, FALSE))
                        /\ pc' = "done"
                   ELSE /\ response' = NoResponse
                        /\ pc' = "enrich"
    /\ UNCHANGED <<products, orders, simple>>

\* The line of the loop of _get_order with product and image set.
Enriched(item, product, image_root) ==
    [id |-> item.id, quantity |-> item.quantity,
     product_id |-> item.product_id, price |-> item.price,
     product |-> product,
     image |-> ImageUrl(image_root, item.product_id)]

\* A loop of _get_order that leaves a line as it is when its product is
\* gone.
GetOrderEnrichSkipMissing ==
    /\ pc = "enrich"
    /\ \E item \in {data.order_details[idx]} :
       \E got \in {ProductsGet(products, item.product_id)} :
       \E order \in {IF got.exc # "" THEN data
                     ELSE [data EXCEPT !.order_details[idx] =
                             Enriched(item, got.product, PRODUCT_IMAGE_ROOT)]} :
        /\ calls' = Append(calls, [svc |-> "products", method |-> "get",
                                   product_id |-> item.product_id,
                                   exc |-> got.exc, product |-> got.product])
        /\ data' = order
        /\ idx' = idx + 1
        /\ IF idx = Len(data.order_details)
           THEN /\ response' = Response(200, GetOrderSchemaDumps(order, FALSE))
                /\ pc' = "done"
           ELSE /\ response' = response
                /\ pc' = "enrich"
    /\ UNCHANGED <<products, orders, request, simple>>

\* _get_order, one turn of the loop: products_rpc.get(product_id); after the
\* last turn, the response of get_order.
GetOrderEnrich ==
    /\ pc = "enrich"
    /\ \E item \in {data.order_details[idx]} :
       \E got \in {ProductsGet(products, item.product_id)} :
        /\ calls' = Append(calls, [svc |-> "products", method |-> "get",
                                   product_id |-> item.product_id,
                                   exc |-> got.exc, product |-> got.product])
        /\ IF got.exc # ""
           THEN /\ response' = Raised(got.exc, <<>>, GetOrderExpected)
                /\ pc' = "done"
                /\ UNCHANGED <<data, idx>>
           ELSE \E order \in {[data EXCEPT !.order_details[idx] =
                                Enriched(item, got.product, PRODUCT_IMAGE_ROOT)]} :
                /\ data' = order
                /\ idx' = idx + 1
                /\ IF idx = Len(data.order_details)
                   THEN /\ response' =
                              Response(200, GetOrderSchemaDumps(order, FALSE))
                        /\ pc' = "done"
                   ELSE /\ response' = response
                        /\ pc' = "enrich"
    /\ UNCHANGED <<products, orders, request, simple>>

\* ------------------------------------------------------------------------
\* The handlers with one remote call.

\* get_product
GetProduct(product_id) ==
    /\ \E got \in {ProductsGet(products, product_id)} :
        simple' =
            [op |-> "get_product", product_id |-> product_id,
             calls |-> <<[svc |-> "products", method |-> "get",
                          product_id |-> product_id, exc |-> got.exc]>>,
             response |->
                 IF got.exc # "" THEN Raised(got.exc, <<>>, {"ProductNotFound"})
                 ELSE Response(200, CreateProductSchemaDump(got.product))]
    /\ UNCHANGED <<products, orders, orch>>

CreateProductExpected == {"ValidationError", "BadRequest", "ProductExists"}

\* create_product
CreateProduct(body) ==
    \E loaded \in {CreateProductSchemaLoads(body)} :
        IF loaded.exc # ""
        THEN /\ simple' = [op |-> "create_product", body |-> body,
                           calls |-> <<>>,
                           response |-> LoadFailure(loaded, CreateProductExpected)]
             /\ UNCHANGED <<products, orders, orch>>
        ELSE \E made \in {ProductsCreate(products, loaded.data)} :
             /\ products' = made.store
             /\ simple' =
                   [op |-> "create_product", body |-> body,
                    calls |-> <<[svc |-> "products", method |-> "create",
                                 data |-> loaded.data, exc |-> made.exc]>>,
                    response |->
                        IF made.exc # ""
                        THEN Raised(made.exc, <<>>, CreateProductExpected)
                        ELSE Response(201, [id |-> loaded.data.id.s])]
             /\ UNCHANGED <<orders, orch>>

UpdateProductExpected == {"ValidationError", "BadRequest", "ProductNotFound"}

\* update_product
UpdateProduct(product_id, body) ==
    \E loaded \in {UpdateProductSchemaLoads(body)} :
        IF loaded.exc # ""
        THEN /\ simple' = [op |-> "update_product", product_id |-> product_id,
                           body |-> body, calls |-> <<>>,
                           response |-> LoadFailure(loaded, UpdateProductExpected)]
             /\ UNCHANGED <<products, orders, orch>>
        ELSE \E made \in {ProductsUpdate(products, product_id, loaded.data)} :
             /\ products' = made.store
             /\ simple' =
                   [op |-> "update_product", product_id |-> product_id,
                    body |-> body,
                    calls |-> <<[svc |-> "products", method |-> "update",
                                 product_id |-> product_id,
                                 data |-> loaded.data, exc |-> made.exc]>>,
                    response |->
                        IF made.exc # ""
                        THEN Raised(made.exc, <<>>, UpdateProductExpected)
                        ELSE Response(200, [id |-> product_id])]
             /\ UNCHANGED <<orders, orch>>

\* delete_product
DeleteProduct(product_id) ==
    /\ \E made \in {ProductsDelete(products, product_id)} :
        /\ products' = made.store
        /\ simple' =
              [op |-> "delete_product", product_id |-> product_id,
               calls |-> <<[svc |-> "products", method |-> "delete",
                            product_id |-> product_id, exc |-> made.exc]>>,
               response |->
                   IF made.exc # "" THEN Raised(made.exc, <<>>, {"ProductNotFound"})
                   ELSE Response(200, [deleted_id |-> product_id])]
    /\ UNCHANGED <<orders, orch>>

Absent == [present |-> FALSE, s |-> <<>>]
Given(s) == [present |-> TRUE, s |-> s]

\* int(request.args.get(name, default))
ArgInt(arg, default) ==
    IF arg.present THEN IntParse(arg.s) ELSE [ok |-> TRUE, n |-> default]

\* The pagination of list_orders: page and per_page as handed to the call.
Pagination(args) ==
    [ok |-> ArgInt(args.p, 1).ok /\ ArgInt(args.per_page, 10).ok,
     page |-> ArgInt(args.p, 1).n,
     per_page |-> ArgInt(args.per_page, 10).n]

\* list_orders: no exception is expected, so the ValueError of int() is a
\* server error.
ListOrders(args) ==
    /\ \E pagination \in {Pagination(args)} :
        IF ~pagination.ok
        THEN simple' = [op |-> "list_orders", args |-> args, calls |-> <<>>,
                        response |-> Raised("ValueError", <<>>, {})]
        ELSE \E listed \in {OrdersListOrders(orders, pagination.page,
                                             pagination.per_page)} :
             simple' =
                [op |-> "list_orders", args |-> args,
                 calls |-> <<[svc |-> "orders", method |-> "list_orders",
                              page |-> pagination.page,
                              per_page |-> pagination.per_page,
                              orders |-> listed]>>,
                 response |-> Response(200, GetOrderSchemaDumps(listed, TRUE))]
    /\ UNCHANGED <<products, orders, orch>>

\* ------------------------------------------------------------------------
\* Requests.

RECURSIVE SeqsUpTo(_, _)
SeqsUpTo(S, n) ==
    IF n = 0 THEN {<<>>}
    ELSE LET shorter == SeqsUpTo(S, n - 1)
         IN  shorter \cup {Append(q, x) : q \in shorter, x \in S}

LineA == [product_id |-> JStr(P1), price |-> JStr(<<"9", ".", "9", "9">>),
          quantity |-> JInt(2)]
LineB == [product_id |-> JStr(P2), price |-> JStr(<<".", "5", "0">>),
          quantity |-> JStr(<<"1">>)]
LineBadPrice == [product_id |-> JStr(P1), price |-> JStr(<<"x">>),
                 quantity |-> JInt(1)]
LineNoProductId == [product_id |-> JAbsent, price |-> JStr(<<"1">>),
                    quantity |-> JInt(1)]

ValidLines == {LineA, LineB}

OrderBody(items) == Obj([order_details |-> JList(items)])

ValidOrderBodies == {OrderBody(items) : items \in SeqsUpTo(ValidLines, MaxLines)}

\* Bodies of create_order that are not JSON, not an object, lack
\* order_details or a field of a line, or hold a value of the wrong type.
InvalidCreateOrderBodies ==
    {Malformed, NonObject, Obj([order_details |-> JAbsent]),
     Obj([order_details |-> JStr(<<"x">>)]),
     OrderBody(<<LineBadPrice>>), OrderBody(<<LineA, LineNoProductId>>)}

CreateOrderBodies == ValidOrderBodies \cup InvalidCreateOrderBodies

FewCreateOrderBodies ==
    {OrderBody(<<>>), OrderBody(<<LineB, LineA>>)} \cup InvalidCreateOrderBodies

OrderIds == 1..(MaxOrders + 1)

TitleA == <<"A">>
TitleB == <<"B">>

ProductBody(id, title, maximum_speed, in_stock, passenger_capacity) ==
    Obj([id |-> id, title |-> title, maximum_speed |-> maximum_speed,
         in_stock |-> in_stock, passenger_capacity |-> passenger_capacity])

\* The catalogue: one well-formed body per product id.
CatalogueBodies ==
    {ProductBody(JStr(id), JStr(TitleA), JInt(1), JInt(1), JInt(1)) :
        id \in ProductIds}

\* Bodies of create_product that are not JSON, not an object, lack a
\* required field or hold a value of the wrong type.
InvalidCreateProductBodies ==
    {Malformed, NonObject,
     ProductBody(JAbsent, JStr(TitleA), JInt(1), JInt(1), JInt(1)),
     ProductBody(JStr(P1), JInt(7), JInt(1), JInt(1), JInt(1)),
     ProductBody(JStr(P1), JStr(TitleA), JStr(<<"x">>), JInt(1), JInt(1)),
     ProductBody(JStr(P2), JStr(TitleA), JInt(1), JAbsent, JInt(1)),
     ProductBody(JStr(P2), JStr(TitleA), JInt(1), JInt(1), JNull)}

CreateProductBodies == CatalogueBodies \cup InvalidCreateProductBodies

\* Bodies of update_product with any subset of the four fields, each at a
\* new value; the body of the docstring carries an id as well.
ValidUpdateProductBodies ==
    {ProductBody(id, title, maximum_speed, in_stock, passenger_capacity) :
        id \in {JAbsent},
        title \in {JAbsent, JStr(TitleB)},
        maximum_speed \in {JAbsent, JInt(2)},
        in_stock \in {JAbsent, JStr(<<"2">>)},
        passenger_capacity \in {JAbsent, JInt(2)}}
    \cup {ProductBody(JStr(P1), JStr(TitleB), JAbsent, JAbsent, JNull)}

\* Bodies of update_product that are not JSON, not an object or hold a
\* value of the wrong type.
InvalidUpdateProductBodies ==
    {Malformed, NonObject,
     ProductBody(JAbsent, JInt(7), JAbsent, JAbsent, JAbsent),
     ProductBody(JAbsent, JStr(TitleB), JStr(<<"x">>), JAbsent, JAbsent)}

UpdateProductBodies == ValidUpdateProductBodies \cup InvalidUpdateProductBodies

\* The update that changes nothing, and the one of the docstring.
FewUpdateProductBodies ==
    {ProductBody(JAbsent, JAbsent, JAbsent, JAbsent, JAbsent),
     ProductBody(JStr(P1), JStr(TitleB), JAbsent, JAbsent, JNull)}
    \cup InvalidUpdateProductBodies

ArgChars == {"-", "0", "2"}
ArgValues == {Absent} \cup {Given(s) : s \in SeqsUpTo(ArgChars, MaxArgLen)}
ListArgs == [p : ArgValues, per_page : ArgValues]

\* ------------------------------------------------------------------------
\* Specifications.

Init ==
    /\ products = <<>>
    /\ orders = <<>>
    /\ pc = "idle"
    /\ request = NoRequest
    /\ data = NoData
    /\ idx = 1
    /\ calls = <<>>
    /\ response = NoResponse
    /\ simple = NoSimple

Next ==
    \/ \E body \in CreateOrderBodies : CreateOrderStart(body)
    \/ CreateOrderExists
    \/ CreateOrderCommit
    \/ \E order_id \in OrderIds : GetOrderFetch(order_id)
    \/ GetOrderEnrich
    \/ \E product_id \in ProductIds : GetProduct(product_id)
    \/ \E body \in CreateProductBodies : CreateProduct(body)
    \/ \E product_id \in ProductIds, body \in UpdateProductBodies :
          UpdateProduct(product_id, body)
    \/ \E product_id \in ProductIds : DeleteProduct(product_id)
    \/ \E args \in ListArgs : ListOrders(args)

Spec == Init /\ [][Next]_vars

\* The record the catalogue body of an id loads to.
CatalogueProduct(product_id) ==
    [id |-> PyStr(product_id), title |-> PyStr(TitleA),
     maximum_speed |-> PyInt(1), in_stock |-> PyInt(1),
     passenger_capacity |-> PyInt(1)]

\* The stores of products the products service may hold to begin with.
CatalogueStores ==
    {[q \in ids |-> CatalogueProduct(q)] : ids \in SUBSET ProductIds}

InitOrders ==
    /\ products \in CatalogueStores
    /\ orders = <<>>
    /\ pc = "idle"
    /\ request = NoRequest
    /\ data = NoData
    /\ idx = 1
    /\ calls = <<>>
    /\ response = NoResponse
    /\ simple = NoSimple

\* Orders: create_order and get_order, with products deleted while they run.
NextOrders ==
    \/ \E body \in CreateOrderBodies : CreateOrderStart(body)
    \/ CreateOrderExists
    \/ CreateOrderCommit
    \/ \E order_id \in OrderIds : GetOrderFetch(order_id)
    \/ GetOrderEnrich
    \/ \E product_id \in ProductIds : DeleteProduct(product_id)

SpecOrders == InitOrders /\ [][NextOrders]_vars

\* Products: the four product handlers, from an empty store.
NextProducts ==
    \/ \E product_id \in ProductIds : GetProduct(product_id)
    \/ \E body \in CreateProductBodies : CreateProduct(body)
    \/ \E product_id \in ProductIds, body \in UpdateProductBodies :
          UpdateProduct(product_id, body)
    \/ \E product_id \in ProductIds : DeleteProduct(product_id)

SpecProducts == Init /\ [][NextProducts]_vars

\* Validation: the three handlers that load a request body.
NextValidation ==
    \/ \E body \in FewCreateOrderBodies : CreateOrderStart(body)
    \/ CreateOrderExists
    \/ CreateOrderCommit
    \/ \E body \in CreateProductBodies : CreateProduct(body)
    \/ \E product_id \in ProductIds, body \in FewUpdateProductBodies :
          UpdateProduct(product_id, body)

SpecValidation == Init /\ [][NextValidation]_vars

\* The lines of the k-th order the orders service holds to begin with.
StoredLines(k) ==
    LET items == IF k % 2 = 1 THEN <<LineA>> ELSE <<LineB, LineA>>
    IN  CreateOrderSchemaDump(CreateOrderSchemaLoads(OrderBody(items)).data)
            .order_details

RECURSIVE StoreOf(_)
StoreOf(n) ==
    IF n = 0 THEN <<>>
    ELSE Append(StoreOf(n - 1), OrdersCreateOrder(StoreOf(n - 1), StoredLines(n)))

StoredOrderIds == 1..(MaxStored + 1)

InitList ==
    /\ products = [q \in ProductIds |-> CatalogueProduct(q)]
    /\ orders \in {StoreOf(n) : n \in 0..MaxStored}
    /\ pc = "idle"
    /\ request = NoRequest
    /\ data = NoData
    /\ idx = 1
    /\ calls = <<>>
    /\ response = NoResponse
    /\ simple = NoSimple

\* Listing: list_orders over every pagination, beside get_order.
NextList ==
    \/ \E args \in ListArgs : ListOrders(args)
    \/ \E order_id \in StoredOrderIds : GetOrderFetch(order_id)
    \/ GetOrderEnrich

SpecList == InitList /\ [][NextList]_vars

\* ------------------------------------------------------------------------
\* Properties.

Items(body) == body.f.order_details.items

ExistsFailed(cs) ==
    \E k \in 1..Len(cs) : cs[k].method = "exists" /\ ~cs[k].found

Commits(cs) == {k \in 1..Len(cs) : cs[k].method = "create_order"}

\* The number a JSON value of an integer field stands for.
JsonInt(v) == IF v.t = "int" THEN v.n ELSE IntParse(v.s).n

C1_Case ==
    /\ request.op = "create_order"
    /\ ExistsFailed(calls)

C1_State ==
    C1_Case =>
        LET k == CHOOSE k \in 1..Len(calls) :
                    /\ calls[k].method = "exists" /\ ~calls[k].found
                    /\ \A j \in 1..(k - 1) : calls[j].found
        IN  /\ \A j \in 1..(k - 1) : calls[j].method = "exists" /\ calls[j].found
            /\ k = Len(calls)
            /\ Commits(calls) = {}
            /\ pc = "done"
            /\ response.exc = "ProductNotFound"
            /\ response.body = NoBody
            /\ k <= Len(Items(request.body))
            /\ calls[k].product_id = Items(request.body)[k].product_id.s
            /\ response.msg =
                  <<"P", "r", "o", "d", "u", "c", "t", " ", "I", "d", " ">>
                  \o Items(request.body)[k].product_id.s

\* C1: once an exists call of a create_order request has returned false, the
\* request has issued no create_order call and issues none, the orders store
\* is left as it was, and the request ends with ProductNotFound whose
\* message carries the product_id of the first line whose exists call
\* returned false.
C1_MissingProductNoCommit ==
    [][C1_State' /\ (C1_Case' => orders' = orders)]_vars

C1_Witness ==
    /\ request.op = "create_order"
    /\ pc = "done"
    /\ Len(calls) = 2
    /\ calls[1].method = "exists" /\ calls[2].method = "exists"
    /\ calls[1].found /\ ~calls[2].found
    /\ calls[1].product_id = P1
    /\ response.exc = "ProductNotFound"
    /\ response.msg =
          <<"P", "r", "o", "d", "u", "c", "t", " ", "I", "d", " ", "p", "2">>

C2_Case ==
    /\ request.op = "create_order"
    /\ pc = "done"
    /\ request.body \in ValidOrderBodies
    /\ ~ExistsFailed(calls)

\* C2: a create_order request whose lines all exist issues exactly one
\* create_order call, hands it the lines of the request in their number and
\* order with the same product_id, the same decimal price and the same
\* quantity, and answers 201 with the id that call returned.
C2_OneCommitSameLines ==
    C2_Case =>
        /\ Cardinality(Commits(calls)) = 1
        /\ \A k \in Commits(calls) :
            LET sent == calls[k].order_details
                items == Items(request.body)
            IN  /\ Len(sent) = Len(items)
                /\ \A i \in 1..Len(items) :
                    /\ DOMAIN sent[i] = {"product_id", "price", "quantity"}
                    /\ sent[i].product_id = items[i].product_id.s
                    /\ DecimalParse(sent[i].price).ok
                    /\ DecimalParse(sent[i].price) = DecimalParse(items[i].price.s)
                    /\ sent[i].quantity = JsonInt(items[i].quantity)
                /\ calls[k].result = orders[Len(orders)]
                /\ response.exc = ""
                /\ response.status = 201
                /\ response.body = [id |-> calls[k].result.id]

C2_Witness ==
    /\ C2_Case
    /\ Items(request.body) = <<LineB, LineA>>
    /\ Len(calls) = 3
    /\ calls[3].order_details[1].price = <<"0", ".", "5", "0">>
    /\ calls[3].order_details[2].price = <<"9", ".", "9", "9">>
    /\ response.body.id = 1

\* C3: whenever the create_order call of an order is issued, every line of
\* the order names a product the products service holds at that moment.
C3_CommitSeesProducts ==
    [][(pc = "commit" /\ pc' = "done") =>
          \A i \in 1..Len(data.order_details) :
              data.order_details[i].product_id.s \in DOMAIN products]_vars

C4_Case ==
    /\ request.op = "get_order"
    /\ pc = "done"
    /\ response.exc = ""

\* C4: the order a successful _get_order returns has the lines of the order
\* that orders.get_order returned, in their order; line i carries the record
\* that the (i+1)-th call, products.get of that line's product_id, returned,
\* and the image <root>/<product_id>.jpg; there is one get_order call and then
\* one products.get call per line.
C4_EnrichedLines ==
    C4_Case =>
        LET fetched == calls[1].order
        IN  /\ calls[1].svc = "orders" /\ calls[1].method = "get_order"
            /\ calls[1].order_id = request.order_id
            /\ fetched = orders[request.order_id]
            /\ Len(calls) = 1 + Len(fetched.order_details)
            /\ data.id = fetched.id
            /\ Len(data.order_details) = Len(fetched.order_details)
            /\ \A i \in 1..Len(fetched.order_details) :
                LET line == data.order_details[i]
                    raw == fetched.order_details[i]
                    call == calls[i + 1]
                IN  /\ call.svc = "products" /\ call.method = "get"
                    /\ call.product_id = raw.product_id
                    /\ line.id = raw.id
                    /\ line.product_id = raw.product_id
                    /\ line.price = raw.price
                    /\ line.quantity = raw.quantity
                    /\ line.product = call.product
                    /\ line.image = PRODUCT_IMAGE_ROOT \o <<"/">>
                                    \o raw.product_id \o <<".", "j", "p", "g">>

C4_Witness ==
    /\ C4_Case
    /\ Len(data.order_details) = 2
    /\ data.order_details[1].product_id = P1
    /\ data.order_details[2].product_id = P1
    /\ data.order_details[2].image =
          <<"h", "t", "t", "p", ":", "/", "/", "i", "m", "g", "/",
            "p", "1", ".", "j", "p", "g">>
    /\ data.order_details[2].product.title.s = TitleA

\* C5: a get_order whose order is unknown ends with OrderNotFound after the
\* one get_order call; a get_order one of whose products is gone ends with
\* ProductNotFound and no body; no response exists before the request is
\* done, and a response with a body has product and image on every line of
\* the order.
C5_NoPartialOrder ==
    request.op = "get_order" =>
        /\ pc # "done" => response = NoResponse
        /\ (pc = "done" /\ calls[1].exc # "") =>
              /\ calls[1].exc = "OrderNotFound"
              /\ response.exc = "OrderNotFound"
              /\ response.body = NoBody
              /\ Len(calls) = 1
        /\ (pc = "done" /\ \E k \in 2..Len(calls) : calls[k].exc # "") =>
              /\ response.exc = "ProductNotFound"
              /\ response.body = NoBody
        /\ (pc = "done" /\ response.body # NoBody) =>
              /\ response.exc = ""
              /\ Len(response.body.order_details)
                    = Len(calls[1].order.order_details)
              /\ \A i \in 1..Len(response.body.order_details) :
                    {"product", "image"} \subseteq
                        DOMAIN response.body.order_details[i]

C5_Witness ==
    /\ request.op = "get_order"
    /\ pc = "done"
    /\ Len(calls) = 3
    /\ calls[2].exc = ""
    /\ calls[3].exc = "ProductNotFound"
    /\ "product" \in DOMAIN data.order_details[1]
    /\ response.exc = "ProductNotFound"
    /\ simple.op = "delete_product"
    /\ simple.response.exc = ""

\* C10: the calls of a create_order request are exists calls, the k-th for
\* the k-th line of the request, each after the one before returned true, and
\* then at most one create_order call, after one exists call per line; an
\* exists call that returned false is the last call of the request.
C10_CallSequence ==
    request.op = "create_order" =>
        /\ pc \in {"exists", "commit"} =>
              Len(calls) = (IF pc = "commit" THEN Len(data.order_details)
                            ELSE idx - 1)
        /\ \A k \in 1..Len(calls) :
            /\ \A j \in 1..(k - 1) :
                  calls[j].method = "exists" /\ calls[j].found
            /\ calls[k].method \in {"exists", "create_order"}
            /\ calls[k].method = "exists" =>
                  /\ k <= Len(Items(request.body))
                  /\ calls[k].product_id = Items(request.body)[k].product_id.s
                  /\ ~calls[k].found => (k = Len(calls) /\ pc = "done")
            /\ calls[k].method = "create_order" =>
                  /\ k = Len(Items(request.body)) + 1
                  /\ k = Len(calls)
                  /\ pc = "done"

C10_Witness ==
    /\ request.op = "create_order"
    /\ pc = "done"
    /\ Len(calls) = 3
    /\ calls[1].method = "exists" /\ calls[1].product_id = P1
    /\ calls[2].method = "exists" /\ calls[2].product_id = P1
    /\ calls[3].method = "create_order"

\* C6: the response of list_orders is a record of count and data, count the
\* number of elements of data, data the orders that orders.list_orders
\* returned, in that order and without product or image; list_orders issues
\* the one orders call and no products call; the response of get_order is the
\* order itself, with no count.
C6_ListWrapped ==
    /\ (simple.op = "list_orders" /\ simple.response.exc = "") =>
          LET listed == simple.calls[1].orders
              body == simple.response.body
          IN  /\ Len(simple.calls) = 1
              /\ DOMAIN body = {"count", "data"}
              /\ body.count = Len(body.data)
              /\ Len(body.data) = Len(listed)
              /\ \A i \in 1..Len(listed) :
                    /\ body.data[i].id = listed[i].id
                    /\ Len(body.data[i].order_details)
                          = Len(listed[i].order_details)
                    /\ \A j \in 1..Len(listed[i].order_details) :
                          LET line == body.data[i].order_details[j]
                              raw == listed[i].order_details[j]
                          IN  /\ DOMAIN line
                                    = {"id", "product_id", "price", "quantity"}
                              /\ line.id = raw.id
                              /\ line.product_id = raw.product_id
                              /\ line.quantity = raw.quantity
                              /\ DecimalParse(line.price)
                                    = DecimalParse(raw.price)
    /\ simple.op = "list_orders" =>
          \A k \in 1..Len(simple.calls) :
              simple.calls[k].svc = "orders"
              /\ simple.calls[k].method = "list_orders"
    /\ (request.op = "get_order" /\ pc = "done" /\ response.exc = "") =>
          /\ "count" \notin DOMAIN response.body
          /\ response.body.id = request.order_id

C6_Witness ==
    /\ simple.op = "list_orders"
    /\ simple.response.exc = ""
    /\ simple.response.body.count = 2
    /\ simple.response.body.data[1].id = 1
    /\ simple.response.body.data[2].id = 2
    /\ request.op = "get_order" /\ pc = "done" /\ response.status = 200

UpdatableFields == {"title", "maximum_speed", "in_stock", "passenger_capacity"}

\* The value a field of a valid body loads to.
Sent(field, v) == IF field = "title" THEN PyStr(v.s) ELSE PyInt(JsonInt(v))

C7_State ==
    /\ (request.op = "create_order"
        /\ request.body \in InvalidCreateOrderBodies) =>
          /\ pc = "done"
          /\ calls = <<>>
          /\ response.exc = (IF request.body = Malformed THEN "BadRequest"
                             ELSE "ValidationError")
          /\ response.exc \in CreateOrderExpected
    /\ (simple.op = "create_product"
        /\ simple.body \in InvalidCreateProductBodies) =>
          /\ simple.calls = <<>>
          /\ simple.response.exc = (IF simple.body = Malformed THEN "BadRequest"
                                    ELSE "ValidationError")
          /\ simple.response.exc \in CreateProductExpected
    /\ (simple.op = "update_product"
        /\ simple.body \in InvalidUpdateProductBodies) =>
          /\ simple.calls = <<>>
          /\ simple.response.exc = (IF simple.body = Malformed THEN "BadRequest"
                                    ELSE "ValidationError")
          /\ simple.response.exc \in UpdateProductExpected

\* A step that ends in the request of a body that is not valid.
C7_Rejecting ==
    \/ /\ request' # request \/ calls' # calls \/ response' # response
       /\ request'.op = "create_order"
       /\ request'.body \in InvalidCreateOrderBodies
    \/ /\ simple' # simple
       /\ simple'.op = "create_product"
       /\ simple'.body \in InvalidCreateProductBodies
    \/ /\ simple' # simple
       /\ simple'.op = "update_product"
       /\ simple'.body \in InvalidUpdateProductBodies

\* C7: create_order, create_product and update_product with a body that is
\* not JSON raise BadRequest, with a body that misses a required field or
\* holds a value of the wrong type raise ValidationError, each an expected
\* exception of the handler; the request issues no remote call and the
\* stores of products and orders are as before it.
C7_InvalidBodyNoCall ==
    [][C7_State' /\ (C7_Rejecting => (products' = products /\ orders' = orders))]_vars

C7_Witness ==
    /\ request.op = "create_order"
    /\ request.body = OrderBody(<<LineA, LineNoProductId>>)
    /\ response.exc = "ValidationError"
    /\ simple.op = "update_product"
    /\ simple.body = ProductBody(JAbsent, JInt(7), JAbsent, JAbsent, JAbsent)
    /\ simple.product_id = P1
    /\ simple.response.exc = "ValidationError"
    /\ P1 \in DOMAIN products
    /\ products[P1].title.s = TitleA

\* C8: update_product with a valid body of an id the store holds issues the
\* one update call, whose data carries no value (None) for each field the
\* body lacks and the loaded value for each field it gives; after it every
\* field the body lacks is as before, every field it gives has the new
\* value, and the other products are as before.  With an id the store lacks
\* it raises ProductNotFound and the store is as before.
C8_PartialUpdate ==
    [][(simple'.op = "update_product"
        /\ simple'.body \in ValidUpdateProductBodies) =>
          LET product_id == simple'.product_id
              body == simple'.body.f
              call == simple'.calls[1]
          IN  /\ Len(simple'.calls) = 1
              /\ call.method = "update"
              /\ call.product_id = product_id
              /\ \A field \in UpdatableFields :
                    call.data[field] =
                        (IF body[field].t \in {"absent", "null"} THEN PyNone
                         ELSE Sent(field, body[field]))
              /\ IF product_id \in DOMAIN products
                 THEN /\ simple'.response.status = 200
                      /\ DOMAIN products' = DOMAIN products
                      /\ \A q \in DOMAIN products \ {product_id} :
                            products'[q] = products[q]
                      /\ products'[product_id].id = products[product_id].id
                      /\ \A field \in UpdatableFields :
                            products'[product_id][field] =
                                (IF body[field].t \in {"absent", "null"}
                                 THEN products[product_id][field]
                                 ELSE Sent(field, body[field]))
                 ELSE /\ simple'.response.exc = "ProductNotFound"
                      /\ products' = products]_vars

C8_Witness ==
    /\ simple.op = "update_product"
    /\ simple.body = ProductBody(JAbsent, JStr(TitleB), JAbsent, JAbsent, JAbsent)
    /\ simple.product_id = P1
    /\ simple.response.status = 200
    /\ DOMAIN products = {P1, P2}
    /\ products[P1].title = PyStr(TitleB)
    /\ products[P1].maximum_speed = PyInt(1)
    /\ products[P1].in_stock = PyInt(1)
    /\ products[P1].passenger_capacity = PyInt(1)
    /\ products[P2].title = PyStr(TitleA)

ArgIsInt(arg) == ~arg.present \/ IntParse(arg.s).ok

\* C9: a list_orders request whose p and per_page are absent or the text of
\* an integer issues exactly one list_orders call, page the integer of p or
\* 1 when p is absent, per_page the integer of per_page or 10 when it is
\* absent, and both are at least 1.
C9_Pagination ==
    (/\ simple.op = "list_orders"
     /\ ArgIsInt(simple.args.p)
     /\ ArgIsInt(simple.args.per_page)) =>
        /\ Len(simple.calls) = 1
        /\ simple.calls[1].method = "list_orders"
        /\ simple.calls[1].page =
              (IF simple.args.p.present THEN IntParse(simple.args.p.s).n ELSE 1)
        /\ simple.calls[1].per_page =
              (IF simple.args.per_page.present
               THEN IntParse(simple.args.per_page.s).n ELSE 10)
        /\ simple.calls[1].page >= 1
        /\ simple.calls[1].per_page >= 1
====
